---------------------------- MODULE Spec2Model ----------------------------
(***************************************************************************)
(* Golf_Swing_Stats: the two report pipelines.                             *)
(*   Variant A  golf_swing_stats.py       process_golf_stats + __main__    *)
(*   Variant B  golf_swing_stats_alt1.py  process_swing_caddie_data + main *)
(* Text is a sequence of one-character strings, so that trimming, case     *)
(* folding, int() parsing and formula quoting are computed, not assumed.   *)
(***************************************************************************)
EXTENDS Integers, Sequences, FiniteSets, TLC

\* ------------------------------------------------------------- bounds
MaxRows == 3
MaxVal == 2
MaxEntries == 2

\* ------------------------------------------------------------- text
Digits == <<"0", "1", "2", "3", "4", "5", "6", "7", "8", "9">>
LowerLetters == <<"a", "b", "c", "d", "e", "f", "g", "h", "i", "j", "k", "l", "m",
                  "n", "o", "p", "q", "r", "s", "t", "u", "v", "w", "x", "y", "z">>
UpperLetters == <<"A", "B", "C", "D", "E", "F", "G", "H", "I", "J", "K", "L", "M",
                  "N", "O", "P", "Q", "R", "S", "T", "U", "V", "W", "X", "Y", "Z">>

IsDigit(c) == \E i \in 1..10 : Digits[i] = c
DigitVal(c) == (CHOOSE i \in 1..10 : Digits[i] = c) - 1
IsSpace(c) == c = " "

\* str.upper(), one character
UpperChar(c) ==
    IF \E i \in 1..26 : LowerLetters[i] = c
    THEN UpperLetters[CHOOSE i \in 1..26 : LowerLetters[i] = c]
    ELSE c

\* str.upper()
Upper(s) == [i \in 1..Len(s) |-> UpperChar(s[i])]

RECURSIVE LStrip(_)
LStrip(s) == IF s # <<>> /\ IsSpace(Head(s)) THEN LStrip(Tail(s)) ELSE s

RECURSIVE RStrip(_)
RStrip(s) ==
    IF s # <<>> /\ IsSpace(s[Len(s)]) THEN RStrip(SubSeq(s, 1, Len(s) - 1)) ELSE s

\* str.strip()
Strip(s) == RStrip(LStrip(s))

\* the text Python's int() accepts here: one or more decimal digits
IsIntText(s) == s # <<>> /\ \A i \in 1..Len(s) : IsDigit(s[i])

RECURSIVE TextToInt(_)
TextToInt(s) ==
    IF s = <<>> THEN 0
    ELSE 10 * TextToInt(SubSeq(s, 1, Len(s) - 1)) + DigitVal(s[Len(s)])

\* str(n) of a non-negative integer
RECURSIVE IntToText(_)
IntToText(n) ==
    IF n < 10 THEN <<Digits[n + 1]>>
    ELSE IntToText(n \div 10) \o <<Digits[(n % 10) + 1]>>

\* str.split(','): always at least one piece
RECURSIVE Split(_)
Split(s) ==
    IF \A i \in 1..Len(s) : s[i] # ","
    THEN <<s>>
    ELSE LET k == CHOOSE i \in 1..Len(s) :
                      s[i] = "," /\ \A j \in 1..(i - 1) : s[j] # ","
         IN <<SubSeq(s, 1, k - 1)>> \o Split(SubSeq(s, k + 1, Len(s)))

RECURSIVE Join(_)
Join(parts) ==
    IF parts = <<>> THEN <<>>
    ELSE IF Len(parts) = 1 THEN parts[1]
    ELSE parts[1] \o <<",">> \o Join(Tail(parts))

\* ------------------------------------------------------------- cells
\* a DataFrame / worksheet value
Num(n) == [t |-> "num", n |-> n]
Str(s) == [t |-> "str", s |-> s]
NaN == [t |-> "nan"]
Blank == Str(<<>>)

AVG == <<"A", "V", "G">>
STDEV == <<"S", "T", "D", "E", "V">>
Yes == <<"Y", "e", "s">>
No == <<"N", "o">>

RECURSIVE SeqSum(_)
SeqSum(s) == IF s = <<>> THEN 0 ELSE Head(s) + SeqSum(Tail(s))

\* the subsequence of s whose elements satisfy Keep
RECURSIVE SelectIdx(_, _, _)
SelectIdx(s, keep, i) ==
    IF i > Len(s) THEN <<>>
    ELSE (IF keep[i] THEN <<s[i]>> ELSE <<>>) \o SelectIdx(s, keep, i + 1)

IndexOf(seq, x) == CHOOSE i \in 1..Len(seq) : seq[i] = x /\ \A j \in 1..(i - 1) : seq[j] # x
Contains(seq, x) == \E i \in 1..Len(seq) : seq[i] = x

\* ------------------------------------------------------------- pandas
\* pd.read_csv: one dtype per column, inferred from all of its fields.
\* A column is numeric when every non-empty field is a number: int64, or
\* float64 when a field is empty (NaN).  Otherwise it is an object column
\* and every non-empty field stays the text it was.  A column with no rows
\* is an object column.
ColumnIsNumeric(fields) ==
    /\ fields # <<>>
    /\ \A i \in 1..Len(fields) : fields[i] = <<>> \/ IsIntText(fields[i])

ColumnDtype(fields) ==
    IF ~ColumnIsNumeric(fields) THEN "object"
    ELSE IF \E i \in 1..Len(fields) : fields[i] = <<>> THEN "float64"
    ELSE "int64"

IsNumberDtype(d) == d \in {"int64", "float64"}

ParseField(f, numeric) ==
    IF f = <<>> THEN NaN
    ELSE IF numeric THEN Num(TextToInt(f))
    ELSE Str(f)

ReadCsvFrame(file) ==
    LET ncols == Len(file.header)
        column(c) == [r \in 1..Len(file.rows) |-> file.rows[r][c]]
        dtype == [c \in 1..ncols |-> ColumnDtype(column(c))]
    IN [cols |-> file.header,
        dtype |-> dtype,
        rows |-> [r \in 1..Len(file.rows) |->
                    [c \in 1..ncols |-> ParseField(file.rows[r][c], IsNumberDtype(dtype[c]))]]]

\* df[mask]: the rows kept, dtypes unchanged
FilterRows(df, keep) == [df EXCEPT !.rows = SelectIdx(df.rows, keep, 1)]

\* df[name] = value for every row: overwrite the column or append it
SetColumn(df, name, cell, dtype) ==
    IF Contains(df.cols, name)
    THEN LET c == IndexOf(df.cols, name)
         IN [df EXCEPT !.dtype[c] = dtype,
                       !.rows = [r \in 1..Len(df.rows) |-> [df.rows[r] EXCEPT ![c] = cell]]]
    ELSE [cols |-> Append(df.cols, name),
          dtype |-> Append(df.dtype, dtype),
          rows |-> [r \in 1..Len(df.rows) |-> Append(df.rows[r], cell)]]

\* df.insert(loc, name, value), loc zero-based
InsertColumn(df, loc, name, cell, dtype) ==
    LET ins(s, x) == SubSeq(s, 1, loc) \o <<x>> \o SubSeq(s, loc + 1, Len(s))
    IN [cols |-> ins(df.cols, name),
        dtype |-> ins(df.dtype, dtype),
        rows |-> [r \in 1..Len(df.rows) |-> ins(df.rows[r], cell)]]

ColumnOf(df, name) == IndexOf(df.cols, name)

\* astype(str) of one value
AsTypeStr(cell) ==
    IF cell.t = "num" THEN IntToText(cell.n)
    ELSE IF cell.t = "nan" THEN <<"n", "a", "n">>
    ELSE cell.s

\* ------------------------------------------------------------- state
VARIABLES
    pc,             \* the statement about to run
    run,            \* 1: the first run, 2: a run on the first run's output
    input_file,     \* the CSV: [header, rows], every field a text
    exclude_input,  \* variant A: the text typed at the exclusion prompt
    excluded_rows,  \* variant A: the parsed exclusion list
    df,             \* the DataFrame: [cols, dtype, rows]
    numeric_cols,   \* variant A: names of the numeric columns
    ws,             \* the worksheet: rows of cells, ws[r][c], both 1-based
    avg_row,        \* variant A: row number of the AVG row
    output_file,    \* what is at the output path: absent | empty | complete
    report,         \* what the program printed last: none | success | error
    failed_at,      \* the statement that raised, or "none"
    first_ws        \* the worksheet the first run saved (history, for run 2)

vars == <<pc, run, input_file, exclude_input, excluded_rows, df, numeric_cols,
          ws, avg_row, output_file, report, failed_at, first_ws>>

EmptyFrame == [cols |-> <<>>, dtype |-> <<>>, rows |-> <<>>]

\* ------------------------------------------------------------- worksheet
\* openpyxl get_column_letter(col_idx), col_idx 1-based
RECURSIVE get_column_letter(_)
get_column_letter(col_idx) ==
    IF col_idx <= 0 THEN <<>>
    ELSE LET remainder == IF col_idx % 26 = 0 THEN 26 ELSE col_idx % 26
             rest == IF col_idx % 26 = 0 THEN (col_idx \div 26) - 1 ELSE col_idx \div 26
         IN get_column_letter(rest) \o <<UpperLetters[remainder]>>

\* the 1-based column a column letter names: the spreadsheet's reading of
\* a reference, bijective base 26
RECURSIVE ColumnOfLetter(_)
ColumnOfLetter(letter) ==
    IF letter = <<>> THEN 0
    ELSE 26 * ColumnOfLetter(SubSeq(letter, 1, Len(letter) - 1))
         + (CHOOSE i \in 1..26 : UpperLetters[i] = letter[Len(letter)])

\* ws.cell(row, column, value): the sheet is kept dense
PadTo(s, n, x) == s \o [i \in 1..(n - Len(s)) |-> x]

\* a whole row written cell by cell at row r
SetCellRow(sheet, r, cells) == [PadTo(sheet, r, <<>>) EXCEPT ![r] = cells]

CellAt(sheet, r, c) ==
    IF r \in 1..Len(sheet) /\ c \in 1..Len(sheet[r]) THEN sheet[r][c] ELSE NaN

\* ------------------------------------------------------------- variant A
\* variant of ParseExcludeList that skips only the entries that do not parse
ParseExcludeListKeepValid(text) ==
    LET pieces == Split(text)
        good == SelectIdx(pieces, [i \in 1..Len(pieces) |-> IsIntText(Strip(pieces[i]))], 1)
    IN IF text = <<>> THEN <<>>
       ELSE [i \in 1..Len(good) |-> TextToInt(Strip(good[i]))]

\* __main__, lines 152-159: all entries parse, or the whole list is dropped
ParseExcludeList(text) ==
    LET pieces == Split(text)
    IN IF text = <<>> THEN <<>>
       ELSE IF \A i \in 1..Len(pieces) : IsIntText(Strip(pieces[i]))
       THEN [i \in 1..Len(pieces) |-> TextToInt(Strip(pieces[i]))]
       ELSE <<>>

ParseExclusions ==
    /\ pc = "main"
    /\ excluded_rows' = ParseExcludeList(exclude_input)
    /\ pc' = "call"
    /\ UNCHANGED <<run, input_file, exclude_input, df, numeric_cols, ws, avg_row,
                   output_file, report, failed_at, first_ws>>

\* line 18
ReadCsv ==
    /\ pc = "call"
    /\ df' = ReadCsvFrame(input_file)
    /\ pc' = "loaded"
    /\ UNCHANGED <<run, input_file, exclude_input, excluded_rows, numeric_cols, ws,
                   avg_row, output_file, report, failed_at, first_ws>>

\* line 21: df['No.'] != 'AVG', an exact comparison with the text AVG
IsAvgRowA(cell) == cell.t = "str" /\ cell.s = AVG

RemoveAvgRow ==
    /\ pc = "loaded"
    /\ LET c == ColumnOf(df, "No.")
       IN df' = FilterRows(df, [r \in 1..Len(df.rows) |-> ~IsAvgRowA(df.rows[r][c])])
    /\ pc' = "stripped"
    /\ UNCHANGED <<run, input_file, exclude_input, excluded_rows, numeric_cols, ws,
                   avg_row, output_file, report, failed_at, first_ws>>

\* line 29: df['No.'] == row_num, row_num an int
MatchesRowNum(cell, row_num) == cell.t = "num" /\ cell.n = row_num

Bool(b) == [t |-> "bool", b |-> b]

\* lines 24-29
IncludeFlags(frame, excluded) ==
    LET c == ColumnOf(frame, "No.")
    IN [r \in 1..Len(frame.rows) |->
          ~\E i \in 1..Len(excluded) : MatchesRowNum(frame.rows[r][c], excluded[i])]

SetInclude ==
    /\ pc = "stripped"
    /\ LET flags == IncludeFlags(df, excluded_rows)
           withCol == SetColumn(df, "Include", Bool(TRUE), "bool")
           ic == ColumnOf(withCol, "Include")
       IN df' = [withCol EXCEPT !.rows =
                    [r \in 1..Len(withCol.rows) |->
                        [withCol.rows[r] EXCEPT ![ic] = Bool(flags[r])]]]
    /\ pc' = "flagged"
    /\ UNCHANGED <<run, input_file, exclude_input, excluded_rows, numeric_cols, ws,
                   avg_row, output_file, report, failed_at, first_ws>>

\* lines 32-34
NumericCols(frame) ==
    LET isNum == [c \in 1..Len(frame.cols) |->
                    IsNumberDtype(frame.dtype[c]) /\ frame.cols[c] # "No."]
    IN SelectIdx(frame.cols, isNum, 1)

SelectNumeric ==
    /\ pc = "flagged"
    /\ numeric_cols' = NumericCols(df)
    /\ pc' = "cols"
    /\ UNCHANGED <<run, input_file, exclude_input, excluded_rows, df, ws, avg_row,
                   output_file, report, failed_at, first_ws>>

\* lines 42-46
Headers(ncols) == <<"No.", "Date", "EQ", "Include">> \o ncols

HeaderText(name) ==
    CASE name = "No." -> <<"N", "o", ".">>
      [] name = "Date" -> <<"D", "a", "t", "e">>
      [] name = "EQ" -> <<"E", "Q">>
      [] name = "Include" -> <<"I", "n", "c", "l", "u", "d", "e">>
      [] name = "I" -> <<"I">>
      [] name = "Speed" -> <<"S", "p", "e", "e", "d">>
      [] name = "Carry" -> <<"C", "a", "r", "r", "y">>

WriteHeaders ==
    /\ pc = "cols"
    /\ LET headers == Headers(numeric_cols)
       IN ws' = <<[c \in 1..Len(headers) |-> Str(HeaderText(headers[c]))]>>
    /\ pc' = "headers"
    /\ UNCHANGED <<run, input_file, exclude_input, excluded_rows, df, numeric_cols,
                   avg_row, output_file, report, failed_at, first_ws>>

\* lines 50-59: one worksheet row per DataFrame row
DataRow(frame, ncols, r) ==
    LET row == frame.rows[r]
        val(name) == row[ColumnOf(frame, name)]
    IN <<val("No."), val("Date"), val("EQ"),
         Str(IF val("Include").b THEN Yes ELSE No)>>
       \o [i \in 1..Len(ncols) |-> val(ncols[i])]

WriteDataRows ==
    /\ pc = "headers"
    /\ ws' = ws \o [r \in 1..Len(df.rows) |-> DataRow(df, numeric_cols, r)]
    /\ pc' = "data"
    /\ UNCHANGED <<run, input_file, exclude_input, excluded_rows, df, numeric_cols,
                   avg_row, output_file, report, failed_at, first_ws>>

\* variant of AverageIfFormula whose ranges run one row too far
AverageIfFormulaThroughAvgRow(col_letter, avgRow) ==
    [t |-> "AVERAGEIF",
     crit_col |-> <<"D">>, crit_first |-> 2, crit_last |-> avgRow,
     criterion |-> Yes,
     col |-> col_letter, first |-> 2, last |-> avgRow]

\* line 72
AverageIfFormula(col_letter, avgRow) ==
    [t |-> "AVERAGEIF",
     crit_col |-> <<"D">>, crit_first |-> 2, crit_last |-> avgRow - 1,
     criterion |-> Yes,
     col |-> col_letter, first |-> 2, last |-> avgRow - 1]

\* lines 62-73: row_idx after the loop is the first row below the data
AddAvgRow ==
    /\ pc = "data"
    /\ LET row_idx == Len(ws) + 1
       IN /\ avg_row' = row_idx
          /\ ws' = Append(ws,
                 <<Str(AVG), Blank, Blank, Blank>>
                 \o [i \in 1..Len(numeric_cols) |->
                       AverageIfFormula(get_column_letter(i + 4), row_idx)])
    /\ pc' = "avg"
    /\ UNCHANGED <<run, input_file, exclude_input, excluded_rows, df, numeric_cols,
                   output_file, report, failed_at, first_ws>>

\* variant of StdevFormula whose average reference is the first metric column's
StdevFormulaFixedAvgColumn(col_letter, avgRow) ==
    [t |-> "SQRT_SUMPRODUCT",
     data_col |-> col_letter, data_first |-> 2, data_last |-> avgRow - 1,
     include_col |-> <<"D">>, include_first |-> 2, include_last |-> avgRow - 1,
     criterion |-> Yes,
     avg_col |-> <<"E">>, avg_cell_row |-> avgRow]

\* variant of StdevFormula whose indicator tests the flag for "No"
StdevFormulaWrongCriterion(col_letter, avgRow) ==
    [t |-> "SQRT_SUMPRODUCT",
     data_col |-> col_letter, data_first |-> 2, data_last |-> avgRow - 1,
     include_col |-> <<"D">>, include_first |-> 2, include_last |-> avgRow - 1,
     criterion |-> No,
     avg_col |-> col_letter, avg_cell_row |-> avgRow]

\* lines 93-103
StdevFormula(col_letter, avgRow) ==
    [t |-> "SQRT_SUMPRODUCT",
     data_col |-> col_letter, data_first |-> 2, data_last |-> avgRow - 1,
     include_col |-> <<"D">>, include_first |-> 2, include_last |-> avgRow - 1,
     criterion |-> Yes,
     avg_col |-> col_letter, avg_cell_row |-> avgRow]

\* lines 82-104
AddStdevRow ==
    /\ pc = "avg"
    /\ LET stdev_row == avg_row + 1
       IN ws' = SetCellRow(ws, stdev_row,
                 <<Str(STDEV), Blank, Blank, Blank>>
                 \o [i \in 1..Len(numeric_cols) |->
                       StdevFormula(get_column_letter(i + 4), avg_row)])
    /\ pc' = "stdev"
    /\ UNCHANGED <<run, input_file, exclude_input, excluded_rows, df, numeric_cols,
                   avg_row, output_file, report, failed_at, first_ws>>

\* lines 126-130 and 169-171
SaveWorkbook ==
    /\ pc = "stdev"
    /\ output_file' = "complete"
    /\ report' = "success"
    /\ pc' = "done"
    /\ first_ws' = IF run = 1 THEN ws ELSE first_ws
    /\ UNCHANGED <<run, input_file, exclude_input, excluded_rows, df, numeric_cols,
                   ws, avg_row, failed_at>>

\* lines 163-176: a statement of process_golf_stats raises (the file is
\* missing or unreadable, a column is missing, the path is not writable);
\* the handlers print the error and the program ends
StagesA == {"call", "loaded", "stripped", "flagged", "cols", "headers", "data", "avg", "stdev"}

RaiseA ==
    /\ pc \in StagesA
    /\ failed_at' = pc
    /\ report' = "error"
    /\ pc' = "error"
    /\ UNCHANGED <<run, input_file, exclude_input, excluded_rows, df, numeric_cols,
                   ws, avg_row, output_file, first_ws>>

\* ------------------------------------------------------------- re-run
\* The saved sheet exported back to CSV (the input of a second run): a
\* value cell is its text, an empty cell an empty field, a formula cell
\* the value the spreadsheet displays for it.
CellToField(cell, shown) ==
    CASE cell.t = "num" -> IntToText(cell.n)
      [] cell.t = "str" -> cell.s
      [] cell.t = "nan" -> <<>>
      [] OTHER -> shown

HeaderName(text) ==
    CHOOSE name \in {"No.", "Date", "EQ", "Include", "I", "Speed", "Carry"} :
        HeaderText(name) = text

SheetToCsv(sheet, shown) ==
    [header |-> [c \in 1..Len(sheet[1]) |-> HeaderName(sheet[1][c].s)],
     rows |-> [r \in 1..(Len(sheet) - 1) |->
                 [c \in 1..Len(sheet[1]) |-> CellToField(CellAt(sheet, r + 1, c), shown)]]]

\* what a summary cell displays: a number, or the engine's error value
DivZero == <<"#", "D", "I", "V", "/", "0", "!">>
Displays == {IntToText(0), DivZero}

\* the generated file is given to the tool again, with the same exclusion
\* input and a new output path
RerunOnOutput ==
    /\ pc = "done"
    /\ run = 1
    /\ \E shown \in Displays : input_file' = SheetToCsv(ws, shown)
    /\ run' = 2
    /\ pc' = "main"
    /\ excluded_rows' = <<>>
    /\ df' = EmptyFrame
    /\ numeric_cols' = <<>>
    /\ ws' = <<>>
    /\ avg_row' = 0
    /\ output_file' = "absent"
    /\ report' = "none"
    /\ UNCHANGED <<exclude_input, failed_at, first_ws>>

\* ------------------------------------------------------------- inputs
DateText == <<"1", "/", "2">>
EqText == <<"6", "I">>

\* identifier fields: row numbers, and summary labels as a file may hold them
IdTexts == {IntToText(1), IntToText(2), AVG, <<" ", "a", "v", "g", " ">>}

\* CSV files of variant A with the identifiers varied
CsvFileA(ids, speeds) ==
    [header |-> <<"No.", "Date", "EQ", "Speed", "Carry">>,
     rows |-> [r \in 1..Len(ids) |->
                 <<ids[r], DateText, EqText, IntToText(speeds[r]), IntToText(r + 1)>>]]

FilesA ==
    {CsvFileA(ids, [r \in 1..Len(ids) |-> r]) :
        ids \in UNION {[1..n -> IdTexts] : n \in 0..MaxRows}}

\* entries typed at the exclusion prompt
ExcludeEntries == {IntToText(1), <<" ", "2", " ">>, <<"x">>}
ExcludeInputs == {Join(e) : e \in UNION {[1..n -> ExcludeEntries] : n \in 0..MaxEntries}}

InitCommon ==
    /\ run = 1
    /\ excluded_rows = <<>>
    /\ df = EmptyFrame
    /\ numeric_cols = <<>>
    /\ ws = <<>>
    /\ avg_row = 0
    /\ output_file = "absent"
    /\ report = "none"
    /\ failed_at = "none"
    /\ first_ws = <<>>

InitA ==
    /\ pc = "main"
    /\ input_file \in FilesA
    /\ exclude_input \in ExcludeInputs
    /\ InitCommon

NextA ==
    \/ ParseExclusions
    \/ ReadCsv
    \/ RemoveAvgRow
    \/ SetInclude
    \/ SelectNumeric
    \/ WriteHeaders
    \/ WriteDataRows
    \/ AddAvgRow
    \/ AddStdevRow
    \/ SaveWorkbook
    \/ RaiseA
    \/ RerunOnOutput

SpecA == InitA /\ [][NextA]_vars

\* ------------------------------------------------------------- evaluation
\* What the spreadsheet engine computes for the generated formulas.  A
\* quotient is kept exact, as [ok, num, den]; ok = FALSE is an error value.
ErrorValue == [ok |-> FALSE, num |-> 0, den |-> 1]
Quotient(a, b) == IF b = 0 THEN ErrorValue ELSE [ok |-> TRUE, num |-> a, den |-> b]
SameValue(p, q) == p.ok = q.ok /\ (p.ok => p.num * q.den = q.num * p.den)

IsText(cell, text) == cell.t = "str" /\ cell.s = text

\* =AVERAGEIF(criteria range, "Yes", value range): the value cells paired,
\* by offset, with a criteria cell holding the criterion; text and empty
\* value cells are skipped
EvalAverageIf(sheet, f) ==
    LET cc == ColumnOfLetter(f.crit_col)
        vc == ColumnOfLetter(f.col)
        n == f.crit_last - f.crit_first + 1
        hit(i) == /\ IsText(CellAt(sheet, f.crit_first + i - 1, cc), f.criterion)
                  /\ CellAt(sheet, f.first + i - 1, vc).t = "num"
        vals == [i \in 1..n |-> IF hit(i) THEN CellAt(sheet, f.first + i - 1, vc).n ELSE 0]
        cnt == [i \in 1..n |-> IF hit(i) THEN 1 ELSE 0]
    IN Quotient(SeqSum(vals), SeqSum(cnt))

\* the radicand of
\*   =SQRT(SUMPRODUCT(((data-avg)^2),--(include="Yes"))/(SUMPRODUCT(--(include="Yes"))-1))
\* with avg the value of the referenced cell, a/b:  (x - a/b)^2 = (b*x - a)^2 / b^2
EvalStdevSquared(sheet, f) ==
    LET dc == ColumnOfLetter(f.data_col)
        ic == ColumnOfLetter(f.include_col)
        n == f.data_last - f.data_first + 1
        avgCell == CellAt(sheet, f.avg_cell_row, ColumnOfLetter(f.avg_col))
        avg == IF avgCell.t = "AVERAGEIF" THEN EvalAverageIf(sheet, avgCell) ELSE ErrorValue
        ind(i) == IF IsText(CellAt(sheet, f.include_first + i - 1, ic), f.criterion) THEN 1 ELSE 0
        x(i) == CellAt(sheet, f.data_first + i - 1, dc)
        allNumbers == \A i \in 1..n : x(i).t = "num"
        sq == [i \in 1..n |-> (avg.den * x(i).n - avg.num) * (avg.den * x(i).n - avg.num) * ind(i)]
        count == SeqSum([i \in 1..n |-> ind(i)])
    IN IF ~avg.ok \/ ~allNumbers THEN ErrorValue
       ELSE Quotient(SeqSum(sq), avg.den * avg.den * (count - 1))

\* ------------------------------------------------------------- statistics inputs
\* CSV files of variant A with the metric values varied, identifiers 1..n
FilesStats ==
    {CsvFileA([r \in 1..Len(speeds) |-> IntToText(r)], speeds) :
        speeds \in UNION {[1..n -> 0..MaxVal] : n \in 0..MaxRows}}

ExcludeInputsStats ==
    {Join(e) : e \in UNION {[1..n -> {IntToText(i) : i \in 1..MaxRows}] : n \in 0..MaxEntries}}

InitStats ==
    /\ pc = "main"
    /\ input_file \in FilesStats
    /\ exclude_input \in ExcludeInputsStats
    /\ InitCommon

NextStats ==
    \/ ParseExclusions
    \/ ReadCsv
    \/ RemoveAvgRow
    \/ SetInclude
    \/ SelectNumeric
    \/ WriteHeaders
    \/ WriteDataRows
    \/ AddAvgRow
    \/ AddStdevRow
    \/ SaveWorkbook

SpecStats == InitStats /\ [][NextStats]_vars

\* ------------------------------------------------------------- variant B
\* xlsxwriter xl_col_to_name(col), col zero-based
RECURSIVE xl_col_name_of(_)
xl_col_name_of(col_num) ==
    IF col_num = 0 THEN <<>>
    ELSE LET remainder == IF col_num % 26 = 0 THEN 26 ELSE col_num % 26
         IN xl_col_name_of((col_num - 1) \div 26) \o <<UpperLetters[remainder]>>

xl_col_to_name(col_idx) == xl_col_name_of(col_idx + 1)

Quote == "\""

\* f'{original_val}' of a number: str() of an int64, or of a float64 that
\* holds a whole number
FormatNumber(n, dtype) ==
    IF dtype = "float64" THEN IntToText(n) \o <<".", "0">> ELSE IntToText(n)

\* lines 46-51: the text of the value the formula yields when the toggle is off
ElseText(original_val, dtype) ==
    CASE original_val.t = "str" -> <<Quote>> \o original_val.s \o <<Quote>>
      [] original_val.t = "nan" -> <<"0">>
      [] OTHER -> FormatNumber(original_val.n, dtype)

\* lines 43-51: =IF($B<row>=1, 0, <value>)
IfFormula(excel_row_num, original_val, dtype) ==
    [t |-> "IF",
     toggle_col |-> <<"B">>, toggle_row |-> excel_row_num,
     then_text |-> <<"0">>,
     else_text |-> ElseText(original_val, dtype)]

\* variant of AverageNonZeroFormula whose range stops one row early
AverageNonZeroFormulaShort(col_letter, num_rows) ==
    [t |-> "AVERAGEIF_NE0", col |-> col_letter, first |-> 2, last |-> num_rows]

\* line 64
AverageNonZeroFormula(col_letter, num_rows) ==
    [t |-> "AVERAGEIF_NE0", col |-> col_letter, first |-> 2, last |-> num_rows + 1]

\* main, lines 76-78: the input path does not exist
InputMissing ==
    /\ pc = "mainB"
    /\ report' = "error"
    /\ failed_at' = "mainB"
    /\ pc' = "error"
    /\ UNCHANGED <<run, input_file, exclude_input, excluded_rows, df, numeric_cols,
                   ws, avg_row, output_file, first_ws>>

\* line 19: the first column, as text, trimmed and upper-cased, is not AVG
IsAvgRowB(cell) == Upper(Strip(AsTypeStr(cell))) = AVG

\* lines 14-22
LoadAndClean ==
    /\ pc = "mainB"
    /\ LET loaded == ReadCsvFrame(input_file)
           kept == FilterRows(loaded,
                       [r \in 1..Len(loaded.rows) |-> ~IsAvgRowB(loaded.rows[r][1])])
       IN df' = InsertColumn(kept, 1, "I", Num(0), "int64")
    /\ pc' = "cleaned"
    /\ UNCHANGED <<run, input_file, exclude_input, excluded_rows, numeric_cols, ws,
                   avg_row, output_file, report, failed_at, first_ws>>

\* line 25: pd.ExcelWriter(output_xlsx).  Depending on the pandas release
\* the writer opens (creates and truncates) the output path here, or the
\* path is first touched when the writer is closed.
CreateWriter ==
    /\ pc = "cleaned"
    /\ output_file' \in {"absent", "empty"}
    /\ pc' = "writer"
    /\ UNCHANGED <<run, input_file, exclude_input, excluded_rows, df, numeric_cols,
                   ws, avg_row, report, failed_at, first_ws>>

\* line 26: df.to_excel, the header and every value as a literal; NaN is
\* written as an empty cell
ToExcel ==
    /\ pc = "writer"
    /\ ws' = <<[c \in 1..Len(df.cols) |-> Str(HeaderText(df.cols[c]))]>> \o df.rows
    /\ pc' = "excel"
    /\ UNCHANGED <<run, input_file, exclude_input, excluded_rows, df, numeric_cols,
                   avg_row, output_file, report, failed_at, first_ws>>

\* lines 38-53: col_idx in range(2, num_cols), zero-based, is column
\* col_idx + 1 of the sheet
WriteIfFormulas ==
    /\ pc = "excel"
    /\ LET num_rows == Len(df.rows)
           num_cols == Len(df.cols)
       IN ws' = [r \in 1..Len(ws) |->
                   IF r = 1 THEN ws[r]
                   ELSE [c \in 1..num_cols |->
                           IF c - 1 \in 2..(num_cols - 1)
                           THEN IfFormula(r, df.rows[r - 1][c], df.dtype[c])
                           ELSE ws[r][c]]]
    /\ pc' = "ifs"
    /\ UNCHANGED <<run, input_file, exclude_input, excluded_rows, df, numeric_cols,
                   avg_row, output_file, report, failed_at, first_ws>>

\* lines 56-65: avg_row_idx = num_rows + 1, zero-based, is row num_rows + 2
WriteAvgRowB ==
    /\ pc = "ifs"
    /\ LET num_rows == Len(df.rows)
           num_cols == Len(df.cols)
       IN ws' = SetCellRow(ws, num_rows + 2,
                   [c \in 1..num_cols |->
                       IF c = 1 THEN Str(AVG)
                       ELSE AverageNonZeroFormula(xl_col_to_name(c - 1), num_rows)])
    /\ pc' = "avgB"
    /\ UNCHANGED <<run, input_file, exclude_input, excluded_rows, df, numeric_cols,
                   avg_row, output_file, report, failed_at, first_ws>>

\* lines 67 and 91
CloseWriter ==
    /\ pc = "avgB"
    /\ output_file' = "complete"
    /\ report' = "success"
    /\ pc' = "doneB"
    /\ UNCHANGED <<run, input_file, exclude_input, excluded_rows, df, numeric_cols,
                   ws, avg_row, failed_at, first_ws>>

\* lines 89-93: a statement of process_swing_caddie_data raises; main
\* prints the error.  Nothing closes the writer or removes the file.
StagesB == {"mainB", "cleaned", "writer", "excel", "ifs", "avgB"}

RaiseB ==
    /\ pc \in StagesB
    /\ failed_at' = pc
    /\ report' = "error"
    /\ pc' = "error"
    /\ UNCHANGED <<run, input_file, exclude_input, excluded_rows, df, numeric_cols,
                   ws, avg_row, output_file, first_ws>>

\* the user of the generated file sets the toggle cell $B<r> of a data row
EditToggle ==
    /\ pc = "doneB"
    /\ \E r \in 2..(Len(df.rows) + 1), v \in {0, 1} :
          /\ ws[r][2] # Num(v)
          /\ ws' = [ws EXCEPT ![r][2] = Num(v)]
    /\ UNCHANGED <<pc, run, input_file, exclude_input, excluded_rows, df, numeric_cols,
                   avg_row, output_file, report, failed_at, first_ws>>

\* ------------------------------------------------------------- evaluation, variant B
\* the text between the quotes of a string literal: a quote inside it must
\* be doubled
RECURSIVE WellQuoted(_)
WellQuoted(s) ==
    IF s = <<>> THEN TRUE
    ELSE IF s[1] # Quote THEN WellQuoted(Tail(s))
    ELSE Len(s) >= 2 /\ s[2] = Quote /\ WellQuoted(SubSeq(s, 3, Len(s)))

RECURSIVE Unquote(_)
Unquote(s) ==
    IF s = <<>> THEN <<>>
    ELSE IF s[1] # Quote THEN <<s[1]>> \o Unquote(Tail(s))
    ELSE <<Quote>> \o Unquote(SubSeq(s, 3, Len(s)))

ErrorCell == [t |-> "error"]

\* the value of a literal of a formula: a quoted text, or a number with an
\* optional fraction of zeros; anything else makes the formula invalid
LiteralValue(text) ==
    LET inner == SubSeq(text, 2, Len(text) - 1)
        dot == IF \E i \in 1..Len(text) : text[i] = "."
               THEN CHOOSE i \in 1..Len(text) : text[i] = "." /\ \A j \in 1..(i - 1) : text[j] # "."
               ELSE Len(text) + 1
        whole == SubSeq(text, 1, dot - 1)
        frac == SubSeq(text, dot + 1, Len(text))
    IN IF text # <<>> /\ text[1] = Quote
       THEN IF Len(text) >= 2 /\ text[Len(text)] = Quote /\ WellQuoted(inner)
            THEN Str(Unquote(inner))
            ELSE ErrorCell
       ELSE IF IsIntText(whole) /\ \A i \in 1..Len(frac) : frac[i] = "0"
            THEN Num(TextToInt(whole))
            ELSE ErrorCell

\* =IF($B<row>=1, 0, <value>)
EvalIf(sheet, f) ==
    LET toggle == CellAt(sheet, f.toggle_row, ColumnOfLetter(f.toggle_col))
        then_v == LiteralValue(f.then_text)
        else_v == LiteralValue(f.else_text)
    IN IF then_v = ErrorCell \/ else_v = ErrorCell THEN ErrorCell
       ELSE IF toggle = Num(1) THEN then_v ELSE else_v

\* the value a cell shows
CellValue(sheet, r, c) ==
    LET cell == CellAt(sheet, r, c)
    IN IF cell.t = "IF" THEN EvalIf(sheet, cell) ELSE cell

\* =AVERAGEIF(range, "<>0"): the mean of the numbers of the range that are
\* not 0; text, empty and invalid cells are not averaged
EvalAverageNonZero(sheet, f) ==
    LET c == ColumnOfLetter(f.col)
        n == f.last - f.first + 1
        v(i) == CellValue(sheet, f.first + i - 1, c)
        hit(i) == v(i).t = "num" /\ v(i).n # 0
    IN Quotient(SeqSum([i \in 1..n |-> IF hit(i) THEN v(i).n ELSE 0]),
                SeqSum([i \in 1..n |-> IF hit(i) THEN 1 ELSE 0]))

\* ------------------------------------------------------------- inputs, variant B
MaxRowsB == 2

IdTextsB == {IntToText(1), <<" ", "a", "v", "g", " ">>}
EqTextsB == {EqText, <<"5", Quote>>}
SpeedTextsB == {<<>>} \cup {IntToText(v) : v \in 0..MaxVal}

FilesB ==
    {[header |-> <<"No.", "EQ", "Speed">>, rows |-> rows] :
        rows \in UNION {[1..n -> IdTextsB \X EqTextsB \X SpeedTextsB] : n \in 0..MaxRowsB}}

InitB ==
    /\ pc = "mainB"
    /\ input_file \in FilesB
    /\ exclude_input = <<>>
    /\ InitCommon

NextB ==
    \/ InputMissing
    \/ LoadAndClean
    \/ CreateWriter
    \/ ToExcel
    \/ WriteIfFormulas
    \/ WriteAvgRowB
    \/ CloseWriter
    \/ RaiseB
    \/ EditToggle

SpecB == InitB /\ [][NextB]_vars

\* ------------------------------------------------------------- both programs
Init == InitA \/ InitStats \/ InitB
Next == NextA \/ NextB
Spec == Init /\ [][Next]_vars

\* ============================================================= claims
\* the identifier field of input row r (the first column of the file)
InputId(r) == input_file.rows[r][1]

\* an identifier that is AVG after trimming whitespace and folding case
NormalizedAvg(text) == Upper(Strip(text)) = AVG

AvgInputRows == {r \in 1..Len(input_file.rows) : NormalizedAvg(InputId(r))}

\* the worksheet rows between the header and the first summary row
DataRowsA == 2..(avg_row - 1)

\* C1 (variant A): when the run is done, the number of data rows written
\* equals the number of input rows minus the rows whose identifier, trimmed
\* and case-folded, is AVG.
C1_RowCountA ==
    pc = "done" =>
        Cardinality(DataRowsA) = Len(input_file.rows) - Cardinality(AvgInputRows)

\* the row number an identifier cell denotes, -1 when it denotes none
IdNumber(cell) ==
    CASE cell.t = "num" -> cell.n
      [] cell.t = "str" /\ IsIntText(Strip(cell.s)) -> TextToInt(Strip(cell.s))
      [] OTHER -> -1

InExclusionList(cell) == \E i \in 1..Len(excluded_rows) : excluded_rows[i] = IdNumber(cell)

\* C2 (variant A): in the finished sheet of a run on an original file, a
\* data row's Include cell is "No" exactly when the row's identifier is in
\* the exclusion list, and "Yes" otherwise.
C2_IncludeFlags ==
    (pc = "done" /\ run = 1) =>
        \A r \in DataRowsA :
            /\ IsText(ws[r][4], No) <=> InExclusionList(ws[r][1])
            /\ IsText(ws[r][4], Yes) <=> ~InExclusionList(ws[r][1])

Entries == Split(exclude_input)
Parses(e) == IsIntText(Strip(e))
SomeEntryMalformed == exclude_input # <<>> /\ \E i \in 1..Len(Entries) : ~Parses(Entries[i])
SomeEntryParses == exclude_input # <<>> /\ \E i \in 1..Len(Entries) : Parses(Entries[i])

\* C3 as claimed: with entries that parse and at least one that does not,
\* every entry that parses is in the exclusion list handed to the pipeline.
C3_ValidEntriesApplied ==
    (pc # "main" /\ SomeEntryParses /\ SomeEntryMalformed) =>
        \A i \in 1..Len(Entries) :
            Parses(Entries[i]) => Contains(excluded_rows, TextToInt(Strip(Entries[i])))

\* C3 as amended: with at least one entry that does not parse the pipeline
\* still runs, with an empty exclusion list, so the finished sheet flags
\* every data row "Yes".
C3_MalformedDropsAll ==
    (pc # "main" /\ SomeEntryMalformed) =>
        /\ excluded_rows = <<>>
        /\ pc = "done" => \A r \in DataRowsA : IsText(ws[r][4], Yes)

\* a finished first run whose input mixed a malformed entry with an entry
\* naming a row of the sheet
C3_Witness ==
    /\ pc = "done" /\ run = 1 /\ report = "success"
    /\ SomeEntryMalformed
    /\ \E i \in 1..Len(Entries), r \in DataRowsA :
          Parses(Entries[i]) /\ IdNumber(ws[r][1]) = TextToInt(Strip(Entries[i]))

\* C4 (variant A): the run on the first run's own output ends with as many
\* data rows as the first run, and none of them is a summary row.
C4_RerunSameRows ==
    (pc = "done" /\ run = 2) =>
        /\ Len(ws) = Len(first_ws)
        /\ \A r \in DataRowsA : ~IsText(ws[r][1], AVG) /\ ~IsText(ws[r][1], STDEV)

\* the number of data rows of this run, after AVG stripping
N == Len(df.rows)

MetricColumns == 5..(4 + Len(numeric_cols))

\* C5 (variant A): once written, the AVG formula and the STDEV formula of
\* every numeric column at letter L use the value range L2:L(N+1) and the
\* criteria range $D$2:$D$(N+1); rows 2..N+1 are the data rows, row 1 the
\* header, row N+2 the AVG row and row N+3 the STDEV row.
C5_FormulaRanges ==
    /\ pc \in {"avg", "stdev", "done"} =>
          /\ IsText(ws[1][1], HeaderText("No."))
          /\ Len(ws) >= N + 2 /\ IsText(ws[N + 2][1], AVG)
          /\ \A c \in MetricColumns :
                LET f == ws[N + 2][c]
                IN /\ f.t = "AVERAGEIF"
                   /\ ColumnOfLetter(f.col) = c /\ f.first = 2 /\ f.last = N + 1
                   /\ f.crit_col = <<"D">> /\ f.crit_first = 2 /\ f.crit_last = N + 1
    /\ pc \in {"stdev", "done"} =>
          /\ Len(ws) = N + 3 /\ IsText(ws[N + 3][1], STDEV)
          /\ \A c \in MetricColumns :
                LET f == ws[N + 3][c]
                IN /\ f.t = "SQRT_SUMPRODUCT"
                   /\ ColumnOfLetter(f.data_col) = c /\ f.data_first = 2 /\ f.data_last = N + 1
                   /\ f.include_col = <<"D">> /\ f.include_first = 2 /\ f.include_last = N + 1

\* a finished run with the most data rows and two numeric columns
C5_Witness ==
    /\ pc = "done" /\ N = MaxRows /\ Len(numeric_cols) = 2
    /\ ws[N + 2][6].last = MaxRows + 1

\* C10 (variant A): the AVG row is written while the sheet has no STDEV row
\* yet, directly after the last data row, and the STDEV row directly after
\* it; the average reference of each numeric column's STDEV formula is the
\* cell of the same column in the AVG row, and that cell holds the column's
\* AVG formula.
C10_StdevRefersToAvgRow ==
    /\ pc \in {"call", "loaded", "stripped", "flagged", "cols", "headers", "data"} =>
          Len(ws) <= N + 1
    /\ pc = "avg" => Len(ws) = N + 2 /\ avg_row = N + 2 /\ IsText(ws[avg_row][1], AVG)
    /\ pc \in {"stdev", "done"} =>
          /\ avg_row = N + 2
          /\ IsText(ws[avg_row][1], AVG)
          /\ IsText(ws[avg_row + 1][1], STDEV)
          /\ \A c \in MetricColumns :
                LET f == ws[avg_row + 1][c]
                    a == CellAt(ws, f.avg_cell_row, ColumnOfLetter(f.avg_col))
                IN /\ f.avg_cell_row = avg_row
                   /\ ColumnOfLetter(f.avg_col) = c
                   /\ a.t = "AVERAGEIF"
                   /\ ColumnOfLetter(a.col) = c

\* a sheet with both summary rows and two numeric columns
C10_Witness ==
    /\ pc = "stdev" /\ Len(numeric_cols) = 2 /\ N >= 1
    /\ ws[avg_row + 1][6].avg_col = <<"F">>

\* C1 (variant B): the same row count, for process_swing_caddie_data.
C1_RowCountB ==
    pc = "doneB" =>
        Len(ws) - 2 = Len(input_file.rows) - Cardinality(AvgInputRows)

\* the value variant B is to show for an original value when the toggle is 0
OriginalOrZero(cell) == IF cell.t = "nan" THEN Num(0) ELSE cell

\* C6 (variant B): in the generated sheet, for every data row k, with the
\* toggle cell $Bk at 1 every other cell of the row shows 0, with the toggle
\* at 0 every other cell shows its original value (0 where it was missing);
\* the toggle cells are 0 until the user edits them.
C6_ToggleNeutralises ==
    /\ pc \in {"excel", "ifs", "avgB"} => \A r \in 2..(N + 1) : ws[r][2] = Num(0)
    /\ pc = "doneB" =>
          \A r \in 2..(N + 1) : \A c \in (1..Len(df.cols)) \ {2} :
              /\ ws[r][2] = Num(1) => CellValue(ws, r, c) = Num(0)
              /\ ws[r][2] = Num(0) => CellValue(ws, r, c) = OriginalOrZero(df.rows[r - 1][c])

\* the rows of the sheet whose value in DataFrame column c counts for the
\* average: the toggle column's own non-zero cells, or the rows with the
\* toggle off whose original value is a number other than 0
CountedRows(c) ==
    {r \in 2..(N + 1) :
        IF c = 2 THEN ws[r][2].n # 0
        ELSE /\ ws[r][2] # Num(1)
             /\ df.rows[r - 1][c].t = "num"
             /\ df.rows[r - 1][c].n # 0}

RECURSIVE SumOriginals(_, _)
SumOriginals(rows, c) ==
    IF rows = {} THEN 0
    ELSE LET r == CHOOSE x \in rows : TRUE
         IN (IF c = 2 THEN ws[r][2].n ELSE df.rows[r - 1][c].n) + SumOriginals(rows \ {r}, c)

\* C8 (variant B): in the generated sheet the AVG formula of every column
\* that has one evaluates to the mean of the column's cells in rows 2..N+1
\* that are not 0: a row with the toggle at 0 and a genuine 0 in the column
\* is left out like a row with the toggle at 1.
C8_AverageSkipsZeros ==
    pc = "doneB" =>
        \A c \in 2..Len(df.cols) :
            LET f == ws[N + 2][c]
            IN /\ f.t = "AVERAGEIF_NE0"
               /\ SameValue(EvalAverageNonZero(ws, f),
                            Quotient(SumOriginals(CountedRows(c), c), Cardinality(CountedRows(c))))

\* two rows with the toggle at 0, one with a genuine 0 and one with another
\* number in the Speed column, whose average is that other number
C8_Witness ==
    /\ pc = "doneB" /\ N = 2
    /\ ws[2][2] = Num(0) /\ ws[3][2] = Num(0)
    /\ df.rows[1][4] = Num(0) /\ df.rows[2][4] = Num(MaxVal)
    /\ EvalAverageNonZero(ws, ws[N + 2][4]) = Quotient(MaxVal, 1)

\* C9: a run that ended with an error raised while loading, computing flags
\* or generating cells and formulas has left nothing at the output path.
C9_NoOutputOnFailure ==
    (pc = "error" /\ report = "error") => output_file = "absent"

\* the DataFrame rows flagged for inclusion, and their values in a column
IncludedRows == {k \in 1..N : df.rows[k][ColumnOf(df, "Include")].b}
ValueOf(k, name) == df.rows[k][ColumnOf(df, name)].n

RECURSIVE SumOf(_, _)
SumOf(rows, name) ==
    IF rows = {} THEN 0
    ELSE LET k == CHOOSE x \in rows : TRUE
         IN ValueOf(k, name) + SumOf(rows \ {k}, name)

RECURSIVE SumOfSquares(_, _)
SumOfSquares(rows, name) ==
    IF rows = {} THEN 0
    ELSE LET k == CHOOSE x \in rows : TRUE
         IN ValueOf(k, name) * ValueOf(k, name) + SumOfSquares(rows \ {k}, name)

\* the sample variance of the values of the included rows, m of them:
\* (m * sum of squares - square of the sum) / (m * (m - 1))
SampleVariance(rows, name) ==
    LET m == Cardinality(rows)
    IN Quotient(m * SumOfSquares(rows, name) - SumOf(rows, name) * SumOf(rows, name),
                m * (m - 1))

\* C7 (variant A): with at least two rows flagged "Yes", the AVG cell of
\* every numeric column is the mean of the flagged values and the square of
\* its STDEV cell is their sample variance; rows flagged "No" count in
\* neither.
C7_StdevOfIncludedRows ==
    (pc \in {"stdev", "done"} /\ Cardinality(IncludedRows) >= 2) =>
        \A c \in MetricColumns :
            LET name == numeric_cols[c - 4]
            IN /\ SameValue(EvalAverageIf(ws, ws[avg_row][c]),
                            Quotient(SumOf(IncludedRows, name), Cardinality(IncludedRows)))
               /\ SameValue(EvalStdevSquared(ws, ws[avg_row + 1][c]),
                            SampleVariance(IncludedRows, name))

\* a finished sheet with two rows flagged "Yes" of different Speed and one
\* row flagged "No" whose Speed is neither
C7_Witness ==
    /\ pc = "done" /\ N = 3
    /\ IncludedRows = {1, 3}
    /\ ValueOf(1, "Speed") = 0 /\ ValueOf(3, "Speed") = MaxVal /\ ValueOf(2, "Speed") = 1
    /\ EvalStdevSquared(ws, ws[avg_row + 1][5]).ok

=============================================================================
